---- MODULE Spec2Model ----
(***************************************************************************)
(* Episodic control loop of EnvTalosDeburringHer                           *)
(* (src/gym_talos/envs/env_talos_deburring_her.py).                        *)
(*                                                                         *)
(* Real numbers are fixed-point integers: a stored integer n stands for    *)
(* the real n / Unit.  Lengths (metres), joint angles (rad), velocities    *)
(* and normalised (dimensionless) values all use the same scale.  Integer  *)
(* counters (timer, on_target, maxStep) and the scale factors              *)
(* limitPosScale / limitVelScale are plain integers.  The inputs are drawn *)
(* from grids on which every division and square root of the handlers is   *)
(* exact.                                                                  *)
(***************************************************************************)
EXTENDS Integers, Sequences, FiniteSets, TLC

VARIABLES
    timer,            \* self.timer
    on_target,        \* self.on_target
    position_target,  \* self.target.position_target
    maxTime,          \* self.maxTime
    maxStep,          \* self.maxStep
    normalizeObs,     \* self.normalizeObs
    sim,              \* state held by the simulator: [q, v, CoM, ee]
    rCoM,             \* self.rCoM
    calls,            \* collaborator calls made by the last handler, in order
    last,             \* the last call: its operation, arguments and returned values
    i,                \* the caller's count of step() calls since reset()
    params_env,       \* self.params_env: the reward keys of the configuration
    rmodel,           \* self.rmodel: the limits of the reduced robot model
    buffer_CoM,       \* pinWrapper._buffer_CoM
    ZMP,              \* pinWrapper._ZMP
    saveCallback,     \* the fields of a SaveCallback
    allCallbacks,     \* the fields of an AllCallbacks and its position in _on_step
    evalOnTraining,   \* the fields of an EvalOnTraining and its position in eval_on_train
    locals,           \* self.locals of the callback: infos[0] and dones[0]
    episode_dsts      \* the infos[0]['dst'] reported so far in the training episode

\* the training callbacks
cbvars == <<saveCallback, allCallbacks, evalOnTraining, locals, episode_dsts>>

vars == <<timer, on_target, position_target, maxTime, maxStep, normalizeObs,
          sim, rCoM, calls, last, i, params_env, rmodel, buffer_CoM, ZMP,
          saveCallback, allCallbacks, evalOnTraining, locals, episode_dsts>>

----------------------------------------------------------------------------
(* Fixed point and vectors *)

\* thousandths: the resolution of the finest literal of the source (0.002)
Unit == 1000

\* step() calls modelled after a reset() in a long episode
MaxTimer == 33

\* step() calls modelled after a reset() when every robot state is tried
MaxSafetySteps == 2

\* steps per episode when the reward, a failure or the display loop is examined
MaxShortSteps == 2

\* rows in a batch handed to compute_reward
MaxBatch == 2

\* calls of a callback's _on_step in one training run
MaxCalls == 4

\* evaluation episodes of one eval_on_train call
MaxEvalEpisodes == 2

Abs(x) == IF x < 0 THEN -x ELSE x

\* a function, so that the bounds of each halving are values
bisect[n \in Nat, lo \in Nat, hi \in Nat] ==
    IF lo >= hi THEN lo
    ELSE LET mid == (lo + hi + 1) \div 2
         IN  IF mid * mid <= n THEN bisect[n, mid, hi] ELSE bisect[n, lo, mid - 1]

\* square root (exact on the grids used); roots stay below 2^10
Sqrt(n) == bisect[n, 0, 1024]

RECURSIVE SumSq(_)
SumSq(v) == IF v = <<>> THEN 0 ELSE Head(v) * Head(v) + SumSq(Tail(v))

\* np.linalg.norm
Norm(v) == Sqrt(SumSq(v))

VSub(a, b) == [k \in DOMAIN a |-> a[k] - b[k]]

VNeg(a) == [k \in DOMAIN a |-> -a[k]]

----------------------------------------------------------------------------
(* Configuration (params_env) and robot model limits *)

timeStepSimulation == 1
numSimulationSteps == 2

weight_target == params_env.w_target_pos
weight_command == params_env.w_control_reg
weight_truncation == params_env.w_penalization_truncation
limitPosScale == 10
limitVelScale == 30
torqueScaleCoeff == 1
lowerLimitPos == <<-500, -500, 900>>
upperLimitPos == <<500, 500, 1500>>
threshold_success == 50
weight_target_reached == params_env.w_target_reached
reward_type == params_env.rewardType

\* the reward keys of a long episode: dense reward, no w_joints_to_init
EpisodeParams ==
    {[w_target_pos |-> 2, w_control_reg |-> 1, w_penalization_truncation |-> 0,
      w_target_reached |-> 5, rewardType |-> "dense", w_joints_to_init |-> <<0, 0>>]}

\* reward keys that tell the terms of both reward policies apart
RewardParams ==
    {[w_target_pos |-> 2, w_control_reg |-> 1, w_penalization_truncation |-> 0,
      w_target_reached |-> 5, rewardType |-> "dense", w_joints_to_init |-> <<0, 0>>],
     [w_target_pos |-> 2, w_control_reg |-> 3, w_penalization_truncation |-> 4,
      w_target_reached |-> 5, rewardType |-> "dense", w_joints_to_init |-> <<2, 1>>],
     [w_target_pos |-> 2, w_control_reg |-> 1, w_penalization_truncation |-> 4,
      w_target_reached |-> 5, rewardType |-> "sparse", w_joints_to_init |-> <<2, 1>>],
     [w_target_pos |-> 2, w_control_reg |-> 3, w_penalization_truncation |-> 0,
      w_target_reached |-> 1, rewardType |-> "sparse", w_joints_to_init |-> <<0, 0>>]}

\* the reduced robot model: two controlled joints
nq == 2
upperPositionLimit == rmodel.upperPositionLimit
lowerPositionLimit == rmodel.lowerPositionLimit
velocityLimit == rmodel.velocityLimit
effortLimit == rmodel.effortLimit

\* the limits of the robot
TalosModel ==
    [upperPositionLimit |-> <<1500, 700>>, lowerPositionLimit |-> <<-1500, -300>>,
     velocityLimit |-> <<2000, 3000>>, effortLimit |-> <<400, 300>>]

\* a robot whose second joint has a velocity limit of 0
LockedJointModel == [TalosModel EXCEPT !.velocityLimit = <<2000, 0>>]

\* np.diag of the w_joints_to_init weights (None by default: all zero)
mat_dt_init == params_env.w_joints_to_init

\* the simulator's initial joint configuration
qC0 == <<0, 200>>

\* maxTime values of the configuration (0.064 s)
MaxTimes == {64}

\* maxTime values of a short display run (0.001 s, less than one control
\* period, 0.004 s and 0.005 s) and the value display.py assigns after
\* construction (500 s)
ShortMaxTimes == {1, 4, 5}

\* a maxTime of 30 control periods (0.060 s)
TightMaxTimes == {60}

DisplayMaxTimes == {500000}

\* int(maxTime / (timeStepSimulation * numSimulationSteps))
MaxStepOf(mt) == mt \div (timeStepSimulation * numSimulationSteps)

torqueScale == [k \in 1..nq |-> torqueScaleCoeff * effortLimit[k]]

----------------------------------------------------------------------------
(* Normalizer *)

lowerObsLim == lowerPositionLimit \o VNeg(velocityLimit)
upperObsLim == upperPositionLimit \o velocityLimit
avgObs == [k \in DOMAIN upperObsLim |-> (upperObsLim[k] + lowerObsLim[k]) \div 2]
diffObs == [k \in DOMAIN upperObsLim |-> upperObsLim[k] - lowerObsLim[k]]

lowerGoalLim == <<-3000, -3000, -3000>>
upperGoalLim == <<3000, 3000, 3000>>
avgGoal == [k \in 1..3 |-> (upperGoalLim[k] + lowerGoalLim[k]) \div 2]
diffGoal == [k \in 1..3 |-> upperGoalLim[k] - lowerGoalLim[k]]

goalNormalizer(goal) == [k \in 1..3 |-> ((goal[k] - avgGoal[k]) * Unit) \div diffGoal[k]]

\* numpy division: a zero divisor gives nan or an infinity, not an exception
obsNormalizer(x) ==
    [k \in DOMAIN x |->
        IF diffObs[k] = 0
        THEN (IF x[k] = avgObs[k] THEN "nan" ELSE IF x[k] > avgObs[k] THEN "inf" ELSE "-inf")
        ELSE ((x[k] - avgObs[k]) * Unit) \div diffObs[k]]

targetNormalizer(target) ==
    [k \in 1..3 |-> ((target[k] - avgGoal[k]) * Unit) \div diffGoal[k]]

----------------------------------------------------------------------------
(* Collaborators: Goal Sampler, Physics Driver, Kinematics Adapter *)

\* goals the Goal Sampler can produce
Targets == {<<0, 0, 0>>, <<360, 0, 0>>}

\* TargetGoal.create_target: a fresh sample becomes target.position_target
create_target == Targets

Call(fn, arg) == [fn |-> fn, arg |-> arg]

\* centre-of-mass values: inside the balance box, on its lower and upper
\* corners, below it on z, above it on x
CoMs == {<<0, 0, 1000>>, <<-500, -500, 900>>, <<500, 500, 1500>>,
         <<0, 0, 899>>, <<501, 0, 1000>>}

\* joint positions: rest pose, on the scaled upper and lower limits, above
\* the upper limit on joint 2, below the lower limit on joint 1
Qs == {<<0, 200>>, <<15000, 7000>>, <<-15000, -3000>>,
       <<0, 7001>>, <<-15003, 200>>}

\* joint velocities: rest, on the scaled limit (both signs), beyond it
\* (negative on joint 1, positive on joint 2)
Vs == {<<0, 0>>, <<-60000, 90000>>, <<-60004, 0>>, <<0, 90006>>}

\* the robot states the simulator can report after a control tick: the rest
\* pose with at most one of joint positions, joint velocities and centre of
\* mass moved away from it
SimStates ==
    {s \in [q : Qs, v : Vs, CoM : CoMs, ee : {<<0, 0, 0>>, <<300, 0, 0>>}] :
        \/ s.q = <<0, 200>> /\ s.v = <<0, 0>>
        \/ s.q = <<0, 200>> /\ s.CoM = <<0, 0, 1000>>
        \/ s.v = <<0, 0>> /\ s.CoM = <<0, 0, 1000>>}

\* the states of a long episode: balanced or fallen, with the end effector on
\* the first target, near it, or on the second target
EpisodeStates ==
    [q : {<<0, 200>>}, v : {<<0, 0>>}, CoM : {<<0, 0, 1000>>, <<0, 0, 899>>},
     ee : {<<0, 0, 0>>, <<60, 0, 0>>, <<360, 0, 0>>}]

\* the states whose reward is examined: at rest or with joint 1 moved,
\* balanced or fallen, the end effector on the first target or 0.1 m from it
\* (0.1 m is between two points of the normalized grid and is rounded down)
RewardStates ==
    [q : {<<0, 200>>, <<300, 200>>}, v : {<<0, 0>>},
     CoM : {<<0, 0, 1000>>, <<0, 0, 899>>}, ee : {<<0, 0, 0>>, <<100, 0, 0>>}]

\* the states reported around a failure: joint 2 at rest or moving, the end
\* effector on the first target or near it
FaultStates ==
    [q : {<<0, 200>>}, v : {<<0, 0>>, <<0, 600>>}, CoM : {<<0, 0, 1000>>},
     ee : {<<0, 0, 0>>, <<60, 0, 0>>}]

\* the canonical pose simulator.reset brings the robot to
ResetStates == {[q |-> qC0, v |-> <<0, 0>>, CoM |-> <<0, 0, 1000>>, ee |-> <<300, 0, 0>>]}

\* simulator.getRobotState: joint positions concatenated with velocities
getRobotState(s) == s.q \o s.v

\* TalosDesigner: the height of the base in the half-sitting pose, gravity,
\* and the control period
z_c == 981
g == -9810
dt == timeStepSimulation * numSimulationSteps

\* update_reduced_model: the CoM history (a deque of at most 3) and the ZMP
update_reduced_model(buffer, s) ==
    LET xy == <<s.CoM[1], s.CoM[2]>>
        b == IF Len(buffer) = 3 THEN Tail(buffer) \o <<xy>> ELSE buffer \o <<xy>>
        acc == [k \in 1..2 |->
                   ((b[3][k] + b[1][k] - 2 * b[2][k]) * 10 * Unit) \div (dt * dt)]
    IN  [buffer_CoM |-> b,
         ZMP |-> IF Len(b) = 3
                 THEN [k \in 1..2 |-> -((((z_c * Unit) \div (-g)) * acc[k]) \div Unit)]
                 ELSE b[1]]

\* normalized actions of the policy: full torque on every joint in a long
\* episode, no torque when every robot state is tried
EpisodeActions == {<<1000, 1000>>}

SafetyActions == {<<0, 0>>}

\* actions over the box [-1, 1]: its bounds, its centre and points between
BoxActions == [1..nq -> {-1000, -400, 0, 700, 1000}]

\* no torque or full torque when the reward is examined
RewardActions == {<<0, 0>>, <<1000, 1000>>}

\* options of reset(): None, a dict without 'target', a dict with 'target'
NoDict == [k \in {} |-> <<>>]

\* Python's None, and the test 'x is None' on a field that holds None or a record
None == [none |-> TRUE]

IsNone(x) == "none" \in DOMAIN x

OptionsSet ==
    {[none |-> TRUE, dict |-> NoDict], [none |-> FALSE, dict |-> NoDict]}
    \cup {[none |-> FALSE, dict |-> [target |-> t]] : t \in Targets}

\* rows of a replayed batch: the achieved goal on the desired goal or 0.1 m
\* from it; no torque, no rest-pose cost, alive, or torque, cost, truncated
BatchRows ==
    [achieved_goal : {<<0, 0, 0>>, <<100, 0, 0>>},
     desired_goal : {<<0, 0, 0>>},
     info : {[param_rew |-> <<0, 0, Unit>>], [param_rew |-> <<500, 180, 0>>]}]

Batches == UNION {[1..n -> BatchRows] : n \in 1..MaxBatch}

\* a target that is no 3-vector
MalformedTargets == {<<0, 0>>}

FaultOptions ==
    OptionsSet \cup {[none |-> FALSE, dict |-> [target |-> t]] : t \in MalformedTargets}

----------------------------------------------------------------------------
(* Helpers of the environment *)

\* the action is taken from [0, 2] instead of [-1, 1]
scaleAction_shifted(action) ==
    [k \in 1..nq |-> (torqueScale[k] * (action[k] + Unit)) \div Unit]

scaleAction(action) == [k \in 1..nq |-> (torqueScale[k] * action[k]) \div Unit]

\* the desired goal is left unnormalized
getObservation_rawGoal(x_measured, ee, target, norm) ==
    IF norm
    THEN [observation |-> obsNormalizer(x_measured),
          achieved_goal |-> goalNormalizer(ee),
          desired_goal |-> target]
    ELSE [observation |-> x_measured,
          achieved_goal |-> ee,
          desired_goal |-> target]

getObservation(x_measured, ee, target, norm) ==
    IF norm
    THEN [observation |-> obsNormalizer(x_measured),
          achieved_goal |-> goalNormalizer(ee),
          desired_goal |-> targetNormalizer(target)]
    ELSE [observation |-> x_measured,
          achieved_goal |-> ee,
          desired_goal |-> target]

\* a centre of mass on the faces of the balance box counts as outside
checkTruncation_closedBox(x_measured, com) ==
    \/ \E k \in 1..3 : com[k] <= lowerLimitPos[k] \/ com[k] >= upperLimitPos[k]
    \/ \E k \in 1..nq :
           \/ x_measured[k] > limitPosScale * upperPositionLimit[k]
           \/ x_measured[k] < limitPosScale * lowerPositionLimit[k]
           \/ Abs(x_measured[Len(x_measured) - nq + k]) > limitVelScale * velocityLimit[k]

checkTruncation(x_measured, com) ==
    LET truncation_balance ==
            \/ \E k \in 1..3 : com[k] < lowerLimitPos[k]
            \/ \E k \in 1..3 : com[k] > upperLimitPos[k]
        truncation_limits_position ==
            \/ \E k \in 1..nq : x_measured[k] > limitPosScale * upperPositionLimit[k]
            \/ \E k \in 1..nq : x_measured[k] < limitPosScale * lowerPositionLimit[k]
        truncation_limits_speed ==
            \E k \in 1..nq :
                Abs(x_measured[Len(x_measured) - nq + k]) > limitVelScale * velocityLimit[k]
        truncation_limits == truncation_limits_position \/ truncation_limits_speed
    IN  truncation_limits \/ truncation_balance

\* the hold fires on the 30th on-target step
checkTermination_hold30(t, o, ms) == t > (ms - 1) \/ o >= 30

\* the budget is exhausted one step late
checkTermination_late(t, o, ms) == t > ms \/ o > 30

\* the time budget is forgotten
checkTermination_holdOnly(t, o, ms) == o > 30

\* the hold is forgotten
checkTermination_budgetOnly(t, o, ms) == t > (ms - 1)

\* equality where the code compares with >
checkTermination_exact(t, o, ms) == t = ms \/ o = 31

\* the budget is recomputed from the current maxTime
checkTermination_fromMaxTime(t, o, ms) == t > (MaxStepOf(maxTime) - 1) \/ o > 30

checkTermination(t, o, ms) == t > (ms - 1) \/ o > 30

\* success after 30 on-target steps
checkSuccess_30(o) == o >= 30

checkSuccess(o) == o > 30

\* one row of info_matrix @ coeff_matrix
MatVec(row, coeff) ==
    row[1] * coeff[1] + row[2] * coeff[2] + row[3] * coeff[3] + row[4] * coeff[4]

\* the truncation weight is paid on the truncated rows
compute_reward_dense_deadBonus(achieved_goal, desired_goal, info) ==
    LET coeff_matrix == <<-weight_command, -1, -weight_truncation, -weight_target>>
        dst == [r \in DOMAIN achieved_goal |->
                   Norm(VSub(achieved_goal[r], desired_goal[r]))]
        info_matrix == [r \in DOMAIN achieved_goal |->
                           <<info[r].param_rew[1], info[r].param_rew[2],
                             info[r].param_rew[3] - Unit, dst[r]>>]
    IN  [r \in DOMAIN achieved_goal |-> MatVec(info_matrix[r], coeff_matrix)]

\* every row of info_matrix is filled from the first info
compute_reward_dense_firstInfo(achieved_goal, desired_goal, info) ==
    LET coeff_matrix == <<-weight_command, -1, weight_truncation, -weight_target>>
        dst == [r \in DOMAIN achieved_goal |->
                   Norm(VSub(achieved_goal[r], desired_goal[r]))]
        info_matrix == [r \in DOMAIN achieved_goal |-> info[1].param_rew \o <<dst[r]>>]
    IN  [r \in DOMAIN achieved_goal |-> MatVec(info_matrix[r], coeff_matrix)]

\* a batch of rows (achieved goal, desired goal, info) to a batch of rewards
compute_reward_dense(achieved_goal, desired_goal, info) ==
    LET coeff_matrix == <<-weight_command, -1, weight_truncation, -weight_target>>
        dst == [r \in DOMAIN achieved_goal |->
                   Norm(VSub(achieved_goal[r], desired_goal[r]))]
        info_matrix == [r \in DOMAIN achieved_goal |-> info[r].param_rew \o <<dst[r]>>]
    IN  [r \in DOMAIN achieved_goal |-> MatVec(info_matrix[r], coeff_matrix)]

\* 0.002 is 2 thousandths
compute_reward_sparse(achieved_goal, desired_goal, info) ==
    LET coeff_matrix == <<-weight_command, 0, 0, weight_target_reached>>
        dst == [r \in DOMAIN achieved_goal |->
                   Norm(VSub(achieved_goal[r], desired_goal[r]))]
        reached == [r \in DOMAIN achieved_goal |->
                       (IF dst[r] < threshold_success THEN Unit ELSE 0) - 2]
        info_matrix == [r \in DOMAIN achieved_goal |-> info[r].param_rew \o <<reached[r]>>]
    IN  [r \in DOMAIN achieved_goal |-> MatVec(info_matrix[r], coeff_matrix)]

\* self.compute_reward, bound at construction from reward_type
compute_reward(achieved_goal, desired_goal, info) ==
    IF reward_type = "sparse"
    THEN compute_reward_sparse(achieved_goal, desired_goal, info)
    ELSE compute_reward_dense(achieved_goal, desired_goal, info)

\* the infos lack the rest-pose cost
Reward_noInit(torques, ob, truncated) ==
    LET dst == Norm(VSub(ob.achieved_goal, ob.desired_goal))
        infos == [param_rew |-> <<Norm(torques), 0, IF truncated THEN 0 ELSE Unit>>,
                  tor |-> Norm(torques),
                  dst |-> dst,
                  on_target |-> dst < threshold_success]
    IN  [reward |-> compute_reward(<<ob.achieved_goal>>, <<ob.desired_goal>>, <<infos>>)[1],
         infos |-> infos]

\* _reward: (reward, infos)
Reward(torques, ob, truncated) ==
    LET d == [k \in 1..nq |-> qC0[k] - ob.observation[k]]
        len_to_init ==
            ((d[1] * mat_dt_init[1] * d[1]) + (d[2] * mat_dt_init[2] * d[2])) \div Unit
        dst == Norm(VSub(ob.achieved_goal, ob.desired_goal))
        bool_check == dst < threshold_success
        infos == [param_rew |-> <<Norm(torques), len_to_init, IF truncated THEN 0 ELSE Unit>>,
                  tor |-> Norm(torques),
                  init |-> len_to_init,
                  dst |-> dst,
                  on_target |-> bool_check]
    IN  [reward |-> compute_reward(<<ob.achieved_goal>>, <<ob.desired_goal>>, <<infos>>)[1],
         infos |-> infos]

\* the control tick is one simulator step short
controlTick_oneShort(torques) ==
    [k \in 1..(numSimulationSteps - 1) |-> Call("simulator.step", torques)]

\* for _ in range(self.numSimulationSteps): self.simulator.step(torques)
controlTick(torques) ==
    [k \in 1..numSimulationSteps |-> Call("simulator.step", torques)]

\* a streak counter: a miss sets it back to 0
countOnTarget_streak(o, hit) == IF hit THEN o + 1 ELSE 0

\* a hit counts twice
countOnTarget_twice(o, hit) == o + (IF hit THEN 2 ELSE 0)

\* self.on_target += 1 if infos["on_target"] else 0
countOnTarget(o, hit) == o + (IF hit THEN 1 ELSE 0)

\* self.timer += 1
nextTimer(t) == t + 1

\* reset() forgets to zero on_target
resetCounters_keepOnTarget == [timer |-> 0, on_target |-> on_target]

\* reset(): self.timer = 0; self.on_target = 0
resetCounters == [timer |-> 0, on_target |-> 0]

----------------------------------------------------------------------------
(* Operations *)

\* the controller constructed from the reward keys in P, a robot model in R
\* and a maxTime in T
Construct(P, R, T) ==
    /\ params_env \in P
    /\ rmodel \in R
    /\ timer = 0
    /\ on_target = 0
    /\ position_target \in create_target
    /\ maxTime \in T
    /\ maxStep = MaxStepOf(maxTime)
    /\ normalizeObs \in BOOLEAN
    /\ sim \in ResetStates
    /\ rCoM = <<0, 0, 0>>
    /\ buffer_CoM = <<>>
    /\ ZMP = <<>>
    /\ calls = <<Call("create_target", <<>>)>>
    /\ last = [op |-> "init", error |-> "none"]
    /\ i = 0
    /\ saveCallback = [n_calls |-> 0, best_mean_reward |-> "-inf"]
    /\ allCallbacks = [n_calls |-> 0,
                       position |-> "idle",
                       best_mean_reward |-> [inf |-> -1],
                       _custom_info_buffer |-> None,
                       _episode_num |-> 0,
                       _ep_info_buffer |-> None,
                       _ep_end_buffer |-> None,
                       _ep_dst_min_buffer |-> None,
                       _dst_min |-> None]
    /\ evalOnTraining = None
    /\ locals = NoDict
    /\ episode_dsts = <<>>

Init == Construct(EpisodeParams, {TalosModel}, MaxTimes)

\* reset(): the target of the new episode, given the previous one
resolveTarget(options, previous) ==
    IF options.none THEN create_target
    ELSE IF "target" \in DOMAIN options.dict THEN {options.dict.target}
    ELSE {previous}

\* reset(): the calls made to resolve the target
resolveCalls(options) ==
    IF options.none THEN <<Call("create_target", <<>>)>> ELSE <<>>

\* reset(): the observation and infos derived from the simulator state s
Baseline(s, target, norm) ==
    [ob |-> getObservation(getRobotState(s), s.ee, target, norm),
     infos |-> [dst |-> Norm(VSub(s.ee, target)), tor |-> 0, init |-> 0]]

reset(options) ==
    \E target \in resolveTarget(options, position_target), s \in ResetStates :
        \E b \in {Baseline(s, target, normalizeObs)},
           u \in {update_reduced_model(buffer_CoM, s)} :
            /\ timer' = resetCounters.timer
            /\ on_target' = resetCounters.on_target
            /\ position_target' = target
            /\ sim' = s
            /\ calls' = resolveCalls(options)
                        \o <<Call("simulator.reset", target),
                             Call("simulator.getRobotState", <<>>),
                             Call("simulator.getRobotPos", <<>>),
                             Call("pinWrapper.update_reduced_model", getRobotState(s))>>
            /\ last' = [op |-> "reset",
                        options |-> options,
                        error |-> "none",
                        ob |-> b.ob,
                        info |-> b.infos]
            /\ i' = 0
            /\ buffer_CoM' = u.buffer_CoM
            /\ ZMP' = u.ZMP
            /\ UNCHANGED <<maxTime, maxStep, normalizeObs, rCoM, params_env, rmodel>>

\* reset() called by the display loop or the test harness
Reset(options) == reset(options) /\ UNCHANGED cbvars

\* step(): torques, observation, truncation, reward and infos derived from
\* the action and the simulator state s after the control tick
Measure(action, s, target, norm) ==
    LET torques == scaleAction(action)
        x_measured == getRobotState(s)
        ob == getObservation(x_measured, s.ee, target, norm)
        truncated == checkTruncation(x_measured, s.CoM)
        r == Reward(torques, ob, truncated)
    IN  [torques |-> torques, ob |-> ob, truncated |-> truncated,
         reward |-> r.reward, infos |-> r.infos]

\* step() when the simulator reports state s after the control tick
StepOn(action, s) ==
    \E m \in {Measure(action, s, position_target, normalizeObs)},
       u \in {update_reduced_model(buffer_CoM, s)} :
    LET t == nextTimer(timer)
        o == countOnTarget(on_target, m.infos.on_target)
        terminated == checkTermination(t, o, maxStep)
        infos == IF terminated \/ m.truncated
                 THEN m.infos @@ ("is_success" :> checkSuccess(o))
                 ELSE m.infos
    IN  /\ timer' = t
        /\ sim' = s
        /\ calls' = controlTick(m.torques)
                    \o <<Call("simulator.getRobotState", <<>>),
                         Call("simulator.getRobotPos", <<>>),
                         Call("pinWrapper.update_reduced_model", getRobotState(s))>>
        /\ rCoM' = s.CoM
        /\ on_target' = o
        /\ last' = [op |-> "step",
                    error |-> "none",
                    action |-> action,
                    ob |-> m.ob,
                    reward |-> m.reward,
                    terminated |-> terminated,
                    truncated |-> m.truncated,
                    info |-> infos]
        /\ i' = i + 1
        /\ buffer_CoM' = u.buffer_CoM
        /\ ZMP' = u.ZMP
        /\ UNCHANGED <<position_target, maxTime, maxStep, normalizeObs, params_env, rmodel>>

\* step() in a long episode
Step(action) ==
    /\ timer < MaxTimer
    /\ \E s \in EpisodeStates : StepOn(action, s)
    /\ UNCHANGED cbvars

Next ==
    \/ \E options \in OptionsSet : Reset(options)
    \/ \E action \in EpisodeActions : Step(action)

Spec == Init /\ [][Next]_vars

\* long episodes under a budget of 30 steps
TightInit == Construct(EpisodeParams, {TalosModel}, TightMaxTimes)

TightSpec == TightInit /\ [][Next]_vars

\* step() on any robot state, in a short episode
SafetyStep(action) ==
    /\ timer < MaxSafetySteps
    /\ \E s \in SimStates : StepOn(action, s)
    /\ UNCHANGED cbvars

SafetyNext ==
    \/ \E options \in OptionsSet : Reset(options)
    \/ \E action \in SafetyActions : SafetyStep(action)

SafetySpec == Init /\ [][SafetyNext]_vars

\* reset() when the target it resolves is a 3-vector
FaultReset(options) ==
    /\ \A target \in resolveTarget(options, position_target) : Len(target) = 3
    /\ Reset(options)

\* reset() when the target it resolves is no 3-vector: the counters and the
\* target are assigned and simulator.reset is called; either that call raises,
\* or the subtraction of the target from the end-effector position does
ResetMalformed(options) ==
    \E target \in resolveTarget(options, position_target) :
        /\ Len(target) # 3
        /\ timer' = resetCounters.timer
        /\ on_target' = resetCounters.on_target
        /\ position_target' = target
        /\ \/ /\ sim' \in {sim} \cup ResetStates
              /\ calls' = resolveCalls(options) \o <<Call("simulator.reset", target)>>
              /\ last' = [op |-> "reset", error |-> "SimulatorError", options |-> options]
              /\ UNCHANGED <<buffer_CoM, ZMP>>
           \/ \E s \in ResetStates : \E u \in {update_reduced_model(buffer_CoM, s)} :
              /\ sim' = s
              /\ calls' = resolveCalls(options)
                          \o <<Call("simulator.reset", target),
                               Call("simulator.getRobotState", <<>>),
                               Call("simulator.getRobotPos", <<>>),
                               Call("pinWrapper.update_reduced_model", getRobotState(s))>>
              /\ last' = [op |-> "reset", error |-> "ValueError", options |-> options]
              /\ buffer_CoM' = u.buffer_CoM
              /\ ZMP' = u.ZMP
        /\ UNCHANGED <<maxTime, maxStep, normalizeObs, rCoM, params_env, rmodel, i>>
        /\ UNCHANGED cbvars

\* step() in a short episode whose reset() returned
FaultStep(action) ==
    /\ timer < MaxShortSteps
    /\ Len(position_target) = 3
    /\ \E s \in FaultStates : StepOn(action, s)
    /\ UNCHANGED cbvars

\* step() when call number k of the control tick raises: simulator.step for
\* k <= numSimulationSteps, pinWrapper.update_reduced_model after them
StepRaises(action, k) ==
    LET torques == scaleAction(action)
        ticks == IF k <= numSimulationSteps THEN k ELSE numSimulationSteps
    IN  /\ timer < MaxShortSteps
        /\ Len(position_target) = 3
        /\ timer' = nextTimer(timer)
        /\ sim' \in (IF k = 1 THEN {sim} ELSE FaultStates)
        /\ calls' = [n \in 1..ticks |-> Call("simulator.step", torques)]
                    \o (IF k <= numSimulationSteps THEN <<>>
                        ELSE <<Call("simulator.getRobotState", <<>>),
                               Call("simulator.getRobotPos", <<>>),
                               Call("pinWrapper.update_reduced_model", getRobotState(sim'))>>)
        /\ last' = [op |-> "step",
                    error |-> IF k <= numSimulationSteps
                              THEN "SimulatorError" ELSE "KinematicsError",
                    action |-> action,
                    subticks |-> k - 1]
        /\ i' = i + 1
        /\ UNCHANGED <<on_target, position_target, maxTime, maxStep, normalizeObs,
                       rCoM, params_env, rmodel, buffer_CoM, ZMP>>
        /\ UNCHANGED cbvars

\* the controller constructed for either robot model
FaultInit == Construct(EpisodeParams, {TalosModel, LockedJointModel}, MaxTimes)

FaultNext ==
    \/ \E options \in FaultOptions : FaultReset(options)
    \/ \E options \in FaultOptions : ResetMalformed(options)
    \/ \E action \in SafetyActions : FaultStep(action)
    \/ \E action \in SafetyActions, k \in 1..(numSimulationSteps + 1) : StepRaises(action, k)

FaultSpec == FaultInit /\ [][FaultNext]_vars

\* envDisplay.maxTime = mt, on the constructed controller
SetMaxTime(mt) ==
    /\ maxTime' = mt
    /\ calls' = <<>>
    /\ last' = [op |-> "set_maxTime", error |-> "none", value |-> mt]
    /\ UNCHANGED <<timer, on_target, position_target, maxStep, normalizeObs, sim, rCoM, i,
                   params_env, rmodel, buffer_CoM, ZMP>>
    /\ UNCHANGED cbvars

\* step() in a short display run
DisplayStep(action) ==
    /\ timer < MaxShortSteps
    /\ \E s \in EpisodeStates : StepOn(action, s)
    /\ UNCHANGED cbvars

DisplayInit == Construct(EpisodeParams, {TalosModel}, ShortMaxTimes)

DisplayNext ==
    \/ \E mt \in DisplayMaxTimes : SetMaxTime(mt)
    \/ \E options \in OptionsSet : Reset(options)
    \/ \E action \in EpisodeActions : DisplayStep(action)

DisplaySpec == DisplayInit /\ [][DisplayNext]_vars

\* compute_reward called on a batch, as the replay buffer does
ComputeReward(batch) ==
    LET achieved_goal == [r \in DOMAIN batch |-> batch[r].achieved_goal]
        desired_goal == [r \in DOMAIN batch |-> batch[r].desired_goal]
        info == [r \in DOMAIN batch |-> batch[r].info]
    IN  /\ calls' = <<>>
        /\ last' = [op |-> "compute_reward",
                    error |-> "none",
                    achieved_goal |-> achieved_goal,
                    desired_goal |-> desired_goal,
                    info |-> info,
                    rewards |-> compute_reward(achieved_goal, desired_goal, info)]
        /\ UNCHANGED <<timer, on_target, position_target, maxTime, maxStep, normalizeObs,
                       sim, rCoM, i, params_env, rmodel, buffer_CoM, ZMP>>
        /\ UNCHANGED cbvars

BatchNext ==
    \/ \E options \in OptionsSet : Reset(options)
    \/ \E batch \in Batches : ComputeReward(batch)

\* step() with any action of the box, the robot staying in its reset pose
TorqueStep(action) ==
    /\ timer < MaxShortSteps
    /\ \E s \in ResetStates : StepOn(action, s)
    /\ UNCHANGED cbvars

TorqueNext ==
    \/ \E options \in OptionsSet : Reset(options)
    \/ \E action \in BoxActions : TorqueStep(action)

TorqueSpec == Init /\ [][TorqueNext]_vars

\* the controller constructed with each set of reward keys
RewardInit == Construct(RewardParams, {TalosModel}, MaxTimes)

\* step() on a state whose reward is examined
RewardStep(action) ==
    /\ timer < MaxShortSteps
    /\ \E s \in RewardStates : StepOn(action, s)
    /\ UNCHANGED cbvars

RewardNext ==
    \/ \E options \in OptionsSet : Reset(options)
    \/ \E action \in RewardActions : RewardStep(action)

RewardSpec == RewardInit /\ [][RewardNext]_vars

BatchSpec == RewardInit /\ [][BatchNext]_vars

----------------------------------------------------------------------------
(* Training callbacks *)

\* check_freq, stats_window_size and log_interval of a short training run
check_freq == 2
stats_window_size == 2
log_interval == 2

\* goal distances and episode rewards the training loop reports
Dsts == {10, 30}

EpisodeRewards == {-2000, 4000}

\* self.locals at a call of _on_step: infos[0] of the step, with the 'episode'
\* record of the Monitor wrapper on the step that ends an episode, and dones[0]
LocalsSet ==
    {[infos |-> [dst |-> d, tor |-> 0, init |-> 0], dones |-> FALSE] : d \in Dsts}
    \cup {[infos |-> [dst |-> d, tor |-> 0, init |-> 0, episode |-> [r |-> r]],
           dones |-> TRUE] : d \in Dsts, r \in EpisodeRewards}

\* SaveCallback._on_step, called with n_calls already counted: the class has
\* no _update_info_buffer_save (the AttributeError is swallowed) and no
\* _ep_info_buffer (the AttributeError of line 149 is not)
SaveOnStep(l) ==
    LET n == saveCallback.n_calls + 1
    IN  /\ saveCallback.n_calls < MaxCalls
        /\ last.error = "none"
        /\ saveCallback' = [saveCallback EXCEPT !.n_calls = n]
        /\ locals' = l
        /\ calls' = <<>>
        /\ last' = IF n % check_freq = 0
                   THEN [op |-> "SaveCallback._on_step", error |-> "AttributeError"]
                   ELSE [op |-> "SaveCallback._on_step", error |-> "none", returned |-> TRUE]
        /\ UNCHANGED <<timer, on_target, position_target, maxTime, maxStep, normalizeObs,
                       sim, rCoM, i, params_env, rmodel, buffer_CoM, ZMP,
                       allCallbacks, evalOnTraining, episode_dsts>>

\* the robot states of an evaluation episode: balanced or fallen
EvalStates ==
    [q : {<<0, 200>>}, v : {<<0, 0>>}, CoM : {<<0, 0, 1000>>, <<0, 0, 899>>},
     ee : {<<60, 0, 0>>}]

n_eval_episodes == MaxEvalEpisodes

\* the mean of a non-empty list, rounded down to the thousandth
Sum(xs) == LET F[k \in 0..Len(xs)] == IF k = 0 THEN 0 ELSE F[k - 1] + xs[k] IN F[Len(xs)]

Mean(xs) == Sum(xs) \div Len(xs)

\* EvalOnTraining.__init__ and _define_targets: n_eval_episodes fresh samples
EvalConstructed(targets) ==
    [targets |-> targets, position |-> "idle", episode |-> 0, used |-> <<>>,
     eval_rewards |-> <<>>, episode_reward |-> 0]

EvalConstruct ==
    /\ IsNone(evalOnTraining)
    /\ \E targets \in [1..n_eval_episodes -> create_target] :
           evalOnTraining' = EvalConstructed(targets)
    /\ calls' = [k \in 1..n_eval_episodes |-> Call("create_target", <<>>)]
    /\ last' = [op |-> "EvalOnTraining", error |-> "none"]
    /\ UNCHANGED <<timer, on_target, position_target, maxTime, maxStep, normalizeObs,
                   sim, rCoM, i, params_env, rmodel, buffer_CoM, ZMP,
                   saveCallback, allCallbacks, locals, episode_dsts>>

\* eval_on_train is entered: eval_rewards = []
EvalEntered(e) ==
    [e EXCEPT !.position = "reset", !.episode = 0, !.used = <<>>, !.eval_rewards = <<>>]

\* eval_on_train called on a constructed evaluator
EvalBegin ==
    /\ ~IsNone(evalOnTraining)
    /\ evalOnTraining.position = "idle"
    /\ allCallbacks.position = "idle"
    /\ evalOnTraining' = EvalEntered(evalOnTraining)
    /\ calls' = <<>>
    /\ last' = [op |-> "eval_on_train", error |-> "none"]
    /\ UNCHANGED <<timer, on_target, position_target, maxTime, maxStep, normalizeObs,
                   sim, rCoM, i, params_env, rmodel, buffer_CoM, ZMP,
                   saveCallback, allCallbacks, locals, episode_dsts>>

\* the target eval_on_train hands to reset() for the episode after e.episode
evalTarget(e) == e.targets[1]

\* eval_on_train, one turn of the for loop: reset(options={"target": ...})
EvalReset ==
    /\ ~IsNone(evalOnTraining)
    /\ evalOnTraining.position = "reset"
    /\ evalOnTraining.episode < n_eval_episodes
    /\ reset([none |-> FALSE, dict |-> [target |-> evalTarget(evalOnTraining)]])
    /\ evalOnTraining' = [evalOnTraining EXCEPT
                              !.position = "step",
                              !.episode_reward = 0,
                              !.used = Append(@, evalTarget(evalOnTraining))]
    /\ UNCHANGED <<saveCallback, allCallbacks, locals, episode_dsts>>

\* eval_on_train, one turn of the while loop: step() and the test of done
EvalStep ==
    /\ ~IsNone(evalOnTraining)
    /\ evalOnTraining.position = "step"
    /\ \E action \in EpisodeActions, s \in EvalStates : StepOn(action, s)
    /\ evalOnTraining' =
           IF last'.terminated \/ last'.truncated
           THEN [evalOnTraining EXCEPT
                    !.position = "reset",
                    !.episode = @ + 1,
                    !.episode_reward = @ + last'.reward,
                    !.eval_rewards = Append(@, evalOnTraining.episode_reward + last'.reward)]
           ELSE [evalOnTraining EXCEPT !.episode_reward = @ + last'.reward]
    /\ UNCHANGED <<saveCallback, allCallbacks, locals, episode_dsts>>

\* eval_on_train returns np.mean(eval_rewards)
EvalEnd ==
    /\ ~IsNone(evalOnTraining)
    /\ evalOnTraining.position = "reset"
    /\ evalOnTraining.episode = n_eval_episodes
    /\ evalOnTraining' = [evalOnTraining EXCEPT !.position = "idle"]
    /\ calls' = <<>>
    /\ last' = [op |-> "eval_on_train",
                error |-> "none",
                returned |-> Mean(evalOnTraining.eval_rewards)]
    /\ UNCHANGED <<timer, on_target, position_target, maxTime, maxStep, normalizeObs,
                   sim, rCoM, i, params_env, rmodel, buffer_CoM, ZMP,
                   saveCallback, allCallbacks, locals, episode_dsts>>

EvalInit == Construct(EpisodeParams, {TalosModel}, ShortMaxTimes)

EvalNext ==
    \/ EvalConstruct
    \/ EvalBegin
    \/ EvalReset
    \/ EvalStep
    \/ EvalEnd

EvalSpec == EvalInit /\ [][EvalNext]_vars

SaveInit == Construct(EpisodeParams, {TalosModel}, ShortMaxTimes)

SaveNext == \E l \in LocalsSet : SaveOnStep(l)

SaveSpec == SaveInit /\ [][SaveNext]_vars

\* collections.deque(maxlen=n): a missing buffer is created empty, extend([x])
\* drops the oldest entry of a full one
deque(buf) == IF IsNone(buf) THEN [items |-> <<>>] ELSE buf

extend(buf, x, maxlen) ==
    IF maxlen = 0
    THEN buf
    ELSE IF Len(buf.items) >= maxlen
         THEN [items |-> Append(Tail(buf.items), x)]
         ELSE [items |-> Append(buf.items, x)]

\* _on_step_tensor, lines 231-234: the running minimum of infos[0]["dst"]
dstMin(dst_min, dst) ==
    IF IsNone(dst_min)
    THEN dst
    ELSE IF dst < dst_min.value THEN dst ELSE dst_min.value

\* _on_step_tensor, line 239: the minimum is forgotten when the episode is done
dstMinAfterDone_kept(m) == [value |-> m]

dstMinAfterDone(m) == None

\* _dump_logs_tensor: the five means handed to logger.record
dump_logs_tensor(custom, ep_end, ep_dst_min) ==
    IF Len(custom.items) > 0
    THEN << Call("logger.record",
                 <<"z_custom/torque_mean",
                   Mean([k \in DOMAIN custom.items |-> custom.items[k].torque])>>),
            Call("logger.record",
                 <<"z_custom/to_reach_mean",
                   Mean([k \in DOMAIN custom.items |-> custom.items[k].to_reach])>>),
            Call("logger.record",
                 <<"z_custom/from_init_mean",
                   Mean([k \in DOMAIN custom.items |-> custom.items[k].from_init])>>),
            Call("logger.record", <<"z_custom/final_dt", Mean(ep_end.items)>>),
            Call("logger.record", <<"z_custom/min_dt", Mean(ep_dst_min.items)>>) >>
    ELSE <<>>

\* AllCallbacks._on_step, first half: _on_step_tensor up to the call of
\* eval_on_train (n_calls is counted by the library before _on_step). The
\* evaluator is constructed on the first episode count that is a multiple of
\* check_freq.
OnStepTensor(l) ==
    LET n       == allCallbacks.n_calls + 1
        dst     == l.infos.dst
        custom  == extend(deque(allCallbacks._custom_info_buffer),
                          [torque |-> l.infos.tor, to_reach |-> dst,
                           from_init |-> l.infos.init],
                          stats_window_size)
        ep_end  == deque(allCallbacks._ep_end_buffer)
        ep_min  == deque(allCallbacks._ep_dst_min_buffer)
        m       == dstMin(allCallbacks._dst_min, dst)
        num     == allCallbacks._episode_num + 1
        ep_end2 == extend(ep_end, dst, log_interval)
        ep_min2 == extend(ep_min, m, log_interval)
        evaluate == l.dones /\ num % check_freq = 0
    IN  /\ allCallbacks.position = "idle"
        /\ allCallbacks.n_calls < MaxCalls
        /\ locals' = l
        /\ episode_dsts' = IF l.dones THEN <<>> ELSE Append(episode_dsts, dst)
        /\ allCallbacks' =
               IF l.dones
               THEN [allCallbacks EXCEPT
                        !.n_calls = n,
                        !._custom_info_buffer = custom,
                        !._episode_num = num,
                        !._ep_end_buffer = ep_end2,
                        !._ep_dst_min_buffer = ep_min2,
                        !._dst_min = dstMinAfterDone(m),
                        !.position = IF evaluate THEN "eval" ELSE "save"]
               ELSE [allCallbacks EXCEPT
                        !.n_calls = n,
                        !._custom_info_buffer = custom,
                        !._ep_end_buffer = ep_end,
                        !._ep_dst_min_buffer = ep_min,
                        !._dst_min = [value |-> m],
                        !.position = "save"]
        /\ calls' = IF l.dones /\ num % log_interval = 0
                    THEN dump_logs_tensor(custom, ep_end2, ep_min2)
                    ELSE <<>>
        /\ IF evaluate
           THEN \E targets \in [1..n_eval_episodes -> create_target] :
                    evalOnTraining' = EvalEntered(IF IsNone(evalOnTraining)
                                                  THEN EvalConstructed(targets)
                                                  ELSE evalOnTraining)
           ELSE UNCHANGED evalOnTraining
        /\ last' = [op |-> "AllCallbacks._on_step_tensor", error |-> "none"]
        /\ UNCHANGED <<timer, on_target, position_target, maxTime, maxStep, normalizeObs,
                       sim, rCoM, i, params_env, rmodel, buffer_CoM, ZMP, saveCallback>>

\* _on_step_tensor, lines 252-253: eval_on_train has returned, its mean is logged
OnStepTensorEvaluated ==
    /\ allCallbacks.position = "eval"
    /\ evalOnTraining.position = "idle"
    /\ allCallbacks' = [allCallbacks EXCEPT !.position = "save"]
    /\ calls' = <<Call("logger.record", <<"z_custom/eval_reward", last.returned>>)>>
    /\ last' = [op |-> "AllCallbacks._on_step_tensor", error |-> "none"]
    /\ UNCHANGED <<timer, on_target, position_target, maxTime, maxStep, normalizeObs,
                   sim, rCoM, i, params_env, rmodel, buffer_CoM, ZMP,
                   saveCallback, evalOnTraining, locals, episode_dsts>>

\* every mean counts as a new best
exceedsBest_always(mean, best) == TRUE

\* -inf < every mean; a recorded best is compared as a number
exceedsBest(mean, best) == "inf" \in DOMAIN best \/ mean > best.value

\* AllCallbacks._on_step, second half: _on_step_save and return True. The
\* KeyError of a step without infos[0]["episode"] is swallowed.
OnStepSave ==
    LET info   == IF "episode" \in DOMAIN locals.infos
                  THEN extend(deque(allCallbacks._ep_info_buffer),
                              locals.infos.episode.r, stats_window_size)
                  ELSE allCallbacks._ep_info_buffer
        compare == /\ allCallbacks.n_calls % check_freq = 0
                   /\ ~IsNone(info)
                   /\ Len(deque(info).items) > 0
        mean_reward == Mean(deque(info).items)
        better == /\ compare
                  /\ exceedsBest(mean_reward, allCallbacks.best_mean_reward)
                  /\ mean_reward > 0
    IN  /\ allCallbacks.position = "save"
        /\ allCallbacks' = [allCallbacks EXCEPT
                               !._ep_info_buffer = info,
                               !.best_mean_reward =
                                   IF better THEN [value |-> mean_reward] ELSE @,
                               !.position = "idle"]
        /\ calls' = IF better THEN <<Call("model.save", "best_model.zip")>> ELSE <<>>
        /\ last' = [op |-> "AllCallbacks._on_step", error |-> "none", returned |-> TRUE]
        /\ UNCHANGED <<timer, on_target, position_target, maxTime, maxStep, normalizeObs,
                       sim, rCoM, i, params_env, rmodel, buffer_CoM, ZMP,
                       saveCallback, evalOnTraining, locals, episode_dsts>>

\* a training run with AllCallbacks on an environment whose episodes last one
\* control step, observations not normalized
CallbackMaxTimes == {1}

CallbackInit ==
    /\ Construct(EpisodeParams, {TalosModel}, CallbackMaxTimes)
    /\ ~normalizeObs

CallbackNext ==
    \/ \E l \in LocalsSet : OnStepTensor(l)
    \/ EvalReset
    \/ EvalStep
    \/ EvalEnd
    \/ OnStepTensorEvaluated
    \/ OnStepSave

CallbackSpec == CallbackInit /\ [][CallbackNext]_vars

----------------------------------------------------------------------------
(* Properties *)

IsStep == last.op = "step"

IsReset == last.op = "reset"

\* C1: every step() returns terminated exactly when, after the step's timer
\* increment and on_target update, timer > maxStep - 1 or on_target > 30; the
\* hold fires on the step that counts the 31st on-target step.
C1_TerminatedIff ==
    IsStep => (last.terminated <=> (timer > maxStep - 1 \/ on_target > 30))

\* the 31st on-target step is counted within the time budget and terminates
C1_Witness ==
    /\ IsStep
    /\ last.info.on_target
    /\ on_target = 31
    /\ timer <= maxStep - 1
    /\ last.terminated

\* C2: while on_target does not exceed 30, the first maxStep - 1 calls of
\* step() after reset() return terminated = false and call number maxStep
\* returns terminated = true.
C2_TerminatesAtMaxStep ==
    (IsStep /\ on_target <= 30 /\ i <= maxStep) => (last.terminated <=> i = maxStep)

\* call number maxStep, without the hold, terminates
C2_Witness ==
    /\ IsStep
    /\ i = maxStep
    /\ on_target <= 30
    /\ last.terminated

\* C3: the info of step() holds is_success exactly on the steps where
\* terminated or truncated is true, and its value is on_target > 30 after the
\* step's on_target update.
C3_SuccessReported ==
    IsStep =>
        /\ ("is_success" \in DOMAIN last.info) <=> (last.terminated \/ last.truncated)
        /\ ("is_success" \in DOMAIN last.info) => (last.info.is_success <=> on_target > 30)

\* a terminal step that reports success
C3_Witness ==
    /\ IsStep
    /\ last.terminated
    /\ "is_success" \in DOMAIN last.info
    /\ last.info.is_success

\* C4: after a step() that returned terminated or truncated, no step() made
\* without a reset() in between returns both flags false.
C4_TerminalUntilReset ==
    [][(/\ IsStep
        /\ (last.terminated \/ last.truncated)
        /\ last'.op = "step")
       => (last'.terminated \/ last'.truncated)]_vars

\* C5: each step() adds exactly 1 to on_target when the step's goal distance
\* is below the success threshold and leaves it unchanged otherwise; a miss
\* never sets it back to 0.
C5_NeverReset ==
    [][last'.op = "step" =>
        on_target' = on_target + (IF last'.info.dst < threshold_success THEN 1 ELSE 0)]_vars

\* a miss after on-target steps keeps the count
C5_Witness ==
    /\ IsStep
    /\ last.info.dst >= threshold_success
    /\ on_target >= 2
    /\ timer > on_target

\* C6: in every reachable state 0 <= on_target <= maxStep.
C6_OnTargetWithinMaxStep == 0 <= on_target /\ on_target <= maxStep

\* C7: reset() sets timer and on_target to 0 whatever they were, and after
\* reset() and k calls of step() timer = k.
C7_TimerCountsSteps ==
    /\ timer = i
    /\ IsReset => (timer = 0 /\ on_target = 0)

\* five steps into an episode
C7_Witness == IsStep /\ i = 5 /\ timer = 5 /\ on_target > 0

\* C8: reset() takes the target of options when options has one, and draws a
\* fresh sample from the Goal Sampler in every other case.
C8_TargetResolved ==
    IsReset =>
        IF "target" \in DOMAIN last.options.dict
        THEN position_target = last.options.dict.target
        ELSE Len(calls) > 0 /\ calls[1].fn = "create_target"

\* C9: step() leaves target_position alone, and the desired_goal of every
\* observation is target_position, or its image (x - mid) / range under the
\* goal box of +-3 when normalization is on.
C9_TargetKept ==
    [][/\ last'.op = "step" => position_target' = position_target
       /\ last'.op \in {"reset", "step"} =>
            \A k \in 1..3 :
                IF normalizeObs'
                THEN last'.ob.desired_goal[k] * 6 = position_target'[k]
                ELSE last'.ob.desired_goal[k] = position_target'[k]]_vars

\* a step of an episode whose target is normalized to another vector
C9_Witness ==
    /\ IsStep
    /\ normalizeObs
    /\ position_target = <<360, 0, 0>>
    /\ last.ob.desired_goal = <<60, 0, 0>>

TorqueNorm == Norm(scaleAction(last.action))

GoalDistance == Norm(VSub(last.ob.achieved_goal, last.ob.desired_goal))

AliveFlag == IF last.truncated THEN 0 ELSE Unit

\* C11: under the dense policy the reward of a step is
\* -w_control * torque_norm - rest_pose_cost + w_truncation * alive_flag
\* - w_target * goal_distance, with alive_flag 1 exactly when the step is not
\* truncated; with zero torque, zero rest-pose cost, no truncation, distance
\* 0.1 and weights 1, 0, 2 it is -0.2.
C11_DenseReward ==
    (IsStep /\ reward_type = "dense") =>
        last.reward = - weight_command * TorqueNorm
                      - last.info.init
                      + weight_truncation * AliveFlag
                      - weight_target * GoalDistance

\* zero torque, zero rest-pose cost, alive, distance 0.1: the reward is -0.2
C11_Witness ==
    /\ IsStep
    /\ reward_type = "dense"
    /\ weight_command = 1 /\ weight_truncation = 0 /\ weight_target = 2
    /\ TorqueNorm = 0 /\ last.info.init = 0 /\ ~last.truncated
    /\ GoalDistance = 100
    /\ last.reward = -200

\* C12: under the sparse policy the reward of a step is
\* -w_control * torque_norm + w_target_reached * (1 if goal_distance <
\* threshold else 0) - 0.002, the 0.002 not scaled by any weight: 4.998 below
\* the threshold and -0.002 otherwise with w_target_reached 5 and zero torque.
C12_SparseReward ==
    (IsStep /\ reward_type = "sparse") =>
        last.reward = - weight_command * TorqueNorm
                      + weight_target_reached
                            * (IF GoalDistance < threshold_success THEN Unit ELSE 0)
                      - 2

\* C13: step() on a constructed controller on which reset() was never called
\* fails with an invalid-state error before touching the simulator: the
\* Physics Driver's step is not called and the timer is not advanced.
C13_StepBeforeResetFails ==
    [][(last.op = "init" /\ last'.op = "step") =>
           /\ last'.error = "InvalidStateError"
           /\ timer' = timer
           /\ \A k \in DOMAIN calls' : calls'[k].fn # "simulator.step"]_vars

\* C14: reset(options) with a target that has not 3 components fails with an
\* invalid-argument error before touching the simulator: simulator.reset is
\* not called and target_position keeps its previous value.
C14_MalformedTargetRejected ==
    [][(last'.op = "reset"
        /\ "target" \in DOMAIN last'.options.dict
        /\ Len(last'.options.dict.target) # 3) =>
           /\ last'.error = "InvalidArgumentError"
           /\ position_target' = position_target
           /\ \A k \in DOMAIN calls' : calls'[k].fn # "simulator.reset"]_vars

\* C15: with normalization on and a zero component in the normalization
\* range, construction fails with a division-by-zero error, so no reset() or
\* step() ever normalizes with a zero range.
C15_ZeroRangeRejected ==
    (normalizeObs /\ \E k \in DOMAIN diffObs : diffObs[k] = 0) =>
        (last.op = "init" /\ last.error = "ZeroDivisionError")

\* C16: when the Physics Driver or the Kinematics Adapter raises during
\* step(), the exception propagates and timer, on_target and the number of
\* physics sub-ticks applied are what they were before the call.
C16_FailedStepLeavesState ==
    [][(last'.op = "step" /\ last'.error \in {"SimulatorError", "KinematicsError"}) =>
           /\ timer' = timer
           /\ on_target' = on_target
           /\ last'.subticks = 0]_vars

\* C17: the info of every step() has the goal distance under 'dst', the
\* torque norm under 'tor' and the rest-pose cost under 'init'; on terminated
\* or truncated steps it has 'is_success' too.
C17_InfoKeys ==
    IsStep =>
        /\ {"dst", "tor", "init"} \subseteq DOMAIN last.info
        /\ last.info.dst = GoalDistance
        /\ last.info.tor = TorqueNorm
        /\ (last.terminated \/ last.truncated) => "is_success" \in DOMAIN last.info

\* a terminated step under torque, away from the target, with the four keys
C17_Witness ==
    /\ IsStep
    /\ last.terminated
    /\ {"dst", "tor", "init", "is_success"} \subseteq DOMAIN last.info
    /\ last.info.tor > 0
    /\ last.info.dst > 0

\* what update_reduced_model leaves in a freshly constructed adapter
FreshCoM == <<sim.CoM[1], sim.CoM[2]>>

\* C18: no mutable state crosses an episode boundary: after reset() a
\* controller that ran an earlier episode is in the state a freshly
\* constructed one is in after the same reset(): timer and on_target 0, and
\* the centre-of-mass history and the ZMP hold the reset pose only.
C18_ResetAsFresh ==
    IsReset =>
        /\ timer = 0
        /\ on_target = 0
        /\ buffer_CoM = <<FreshCoM>>
        /\ ZMP = FreshCoM

\* C19: maxStep is maxTime / (timeStepSimulation * numSimulationSteps)
\* truncated to an integer, computed at construction; no later operation
\* changes it, and assigning maxTime afterwards leaves the step at which
\* termination fires where it was.
C19_MaxStepFixed ==
    [][/\ last.op = "init" =>
              maxStep = maxTime \div (timeStepSimulation * numSimulationSteps)
       /\ maxStep' = maxStep
       /\ (last'.op = "step" /\ on_target' <= 30) =>
              (last'.terminated <=> timer' >= maxStep)]_vars

\* after maxTime = 500, termination fires on step 2 of a 0.005 s budget
C19_Witness ==
    /\ maxTime = 500000
    /\ maxStep = 2
    /\ IsStep
    /\ timer = maxStep
    /\ on_target <= 30
    /\ last.terminated

\* C20: compute_reward on a batch of N rows returns N rewards, row r being
\* the reward of row r computed alone, and leaves timer, on_target,
\* target_position and every other field of the controller unchanged.
C20_BatchPure ==
    [][last'.op = "compute_reward" =>
           /\ Len(last'.rewards) = Len(last'.achieved_goal)
           /\ \A r \in DOMAIN last'.rewards :
                  last'.rewards[r] = compute_reward(<<last'.achieved_goal[r]>>,
                                                    <<last'.desired_goal[r]>>,
                                                    <<last'.info[r]>>)[1]
           /\ UNCHANGED <<timer, on_target, position_target, maxTime, maxStep,
                          normalizeObs, sim, rCoM, i, params_env, rmodel,
                          buffer_CoM, ZMP>>]_vars

\* a batch of two different rows with two different rewards
C20_Witness ==
    /\ last.op = "compute_reward"
    /\ Len(last.rewards) = 2
    /\ last.info[1] # last.info[2]
    /\ last.achieved_goal[1] # last.achieved_goal[2]
    /\ last.rewards[1] # last.rewards[2]

\* the torque vector the last step() sent to the simulator
AppliedTorque == calls[1].arg

\* C21: for every action with all components in [-1, 1], each component of
\* the torque _scaleAction produces has magnitude at most torqueScaleCoeff
\* times the effort limit of its joint.
C21_TorqueBounded ==
    (IsStep /\ \A k \in 1..nq : Abs(last.action[k]) <= Unit) =>
        \A k \in 1..nq : Abs(AppliedTorque[k]) <= torqueScaleCoeff * effortLimit[k]

\* the bound is met: full negative action on joint 1, a partial one on joint 2
C21_Witness ==
    /\ IsStep
    /\ last.action = <<-1000, 700>>
    /\ AppliedTorque = <<-400, 210>>

\* C22: each step() calls the simulator's step exactly numSimulationSteps
\* times, each time with the torque scaled from that step's action, and reads
\* the state and updates the kinematics model only after the last of them;
\* truncation, reward, on_target and termination are evaluated in that order
\* on the resulting state.
C22_ControlTick ==
    [][last'.op = "step" =>
           /\ Len(calls') = numSimulationSteps + 3
           /\ \A k \in 1..numSimulationSteps :
                  calls'[k] = Call("simulator.step", scaleAction(last'.action))
           /\ calls'[numSimulationSteps + 1].fn = "simulator.getRobotState"
           /\ calls'[numSimulationSteps + 2].fn = "simulator.getRobotPos"
           /\ calls'[numSimulationSteps + 3]
                  = Call("pinWrapper.update_reduced_model", getRobotState(sim'))
           /\ last'.truncated = checkTruncation(getRobotState(sim'), sim'.CoM)
           /\ last'.info.param_rew[3] = (IF last'.truncated THEN 0 ELSE Unit)
           /\ on_target' = on_target + (IF last'.info.on_target THEN 1 ELSE 0)
           /\ last'.terminated <=> (timer' > maxStep - 1 \/ on_target' > 30)]_vars

\* a truncated step on the target that counts the 31st hit and terminates
C22_Witness ==
    /\ IsStep
    /\ Len(calls) = numSimulationSteps + 3
    /\ last.truncated
    /\ last.info.on_target
    /\ on_target = 31
    /\ timer < maxStep
    /\ last.terminated

\* the distance between the end effector and the target, in metres
RawDistance == Norm(VSub(sim.ee, position_target))

\* C23: a step is on target exactly when the L2 distance between the end
\* effector and target_position is below the success threshold, with
\* normalization on or off, and the 'dst' of reset() and of step() is that
\* same distance.
C23_OnTargetByDistance ==
    /\ IsStep => (last.info.on_target <=> RawDistance < threshold_success)
    /\ (IsStep \/ IsReset) => last.info.dst = RawDistance

\* max(maxStep, 1)
FirstTerminalCall == IF maxStep > 1 THEN maxStep ELSE 1

\* the last step() reported is_success = true
Succeeded == "is_success" \in DOMAIN last.info /\ last.info.is_success

\* C25: every episode ends: whatever the actions and the simulator states,
\* call number max(maxStep, 1) of step() after reset() at the latest returns
\* terminated or truncated, so a loop 'until terminated or truncated' ends.
C25_EpisodeEnds ==
    (IsStep /\ i >= FirstTerminalCall) => (last.terminated \/ last.truncated)

\* a budget shorter than one control period: the first step terminates
C25_Witness ==
    /\ IsStep
    /\ maxStep = 0
    /\ i = 1
    /\ last.terminated
    /\ ~last.truncated

\* C26: termination is sticky: after a step() that returned terminated, every
\* later step() without a reset() returns terminated too, and is_success
\* stays true once a terminated step reported it.
C26_StickyTermination ==
    [][(last.op = "step" /\ last.terminated /\ last'.op = "step") =>
           /\ last'.terminated
           /\ last.info.is_success => last'.info.is_success]_vars

\* a successful step past the end of the budget
C26_Witness ==
    /\ IsStep
    /\ timer > maxStep
    /\ last.terminated
    /\ Succeeded

\* C27: 0 <= on_target <= timer in every reachable state; so is_success is
\* true only on a step with timer >= 31, and with maxStep <= 30 no step up to
\* the first terminal one reports success.
C27_OnTargetWithinTimer ==
    /\ 0 <= on_target /\ on_target <= timer
    /\ (IsStep /\ Succeeded) => timer >= 31
    /\ (IsStep /\ maxStep <= 30 /\ i <= FirstTerminalCall) => ~Succeeded

\* under a budget of 30, a caller that steps on reaches success on step 31
C27_Witness ==
    /\ IsStep
    /\ maxStep = 30
    /\ timer = 31
    /\ on_target = timer
    /\ Succeeded

\* C28: a step that reports is_success = true returns terminated = true, so
\* a step truncated but not terminated reports is_success = false; and a
\* truncated step with on_target > 30 reports is_success = true.
C28_SuccessImpliesTermination ==
    IsStep =>
        /\ Succeeded => last.terminated
        /\ (last.truncated /\ ~last.terminated) =>
               ("is_success" \in DOMAIN last.info /\ ~last.info.is_success)
        /\ (last.truncated /\ on_target > 30) => Succeeded

\* a truncated step that reports success
C28_Witness ==
    /\ IsStep
    /\ last.truncated
    /\ on_target > 30
    /\ last.terminated
    /\ Succeeded

\* C24: SaveCallback._on_step returns True on every call and never raises;
\* on a call where n_calls is a multiple of check_freq it compares the mean of
\* the recorded episode rewards with best_mean_reward and, the mean being
\* strictly higher, stores it and saves the model (any mean is higher than the
\* initial -inf).
C24_SaveOnStepReturns ==
    [][last'.op = "SaveCallback._on_step" =>
           /\ last'.error = "none"
           /\ last'.returned
           /\ (/\ saveCallback'.n_calls % check_freq = 0
               /\ "episode" \in DOMAIN locals'.infos
               /\ saveCallback.best_mean_reward = "-inf") =>
                  /\ saveCallback'.best_mean_reward # "-inf"
                  /\ \E k \in DOMAIN calls' : calls'[k].fn = "model.save"]_vars

\* C29: eval_on_train runs exactly n_eval_episodes episodes, episode k
\* against the k-th target pre-sampled by _define_targets, each begun by
\* reset(options={'target': ...}) and stepped until terminated or truncated.
C29_EvalTargets ==
    ~IsNone(evalOnTraining) =>
        /\ \A k \in DOMAIN evalOnTraining.used :
               evalOnTraining.used[k] = evalOnTraining.targets[k]
        /\ (last.op = "eval_on_train" /\ "returned" \in DOMAIN last) =>
               /\ Len(evalOnTraining.used) = n_eval_episodes
               /\ Len(evalOnTraining.eval_rewards) = n_eval_episodes

\* the smallest entry of a non-empty list
Smallest(xs) == CHOOSE x \in {xs[k] : k \in DOMAIN xs} : \A k \in DOMAIN xs : x <= xs[k]

\* _on_step_tensor has just handled a step that ends a training episode
EpisodeDone ==
    /\ allCallbacks'.n_calls = allCallbacks.n_calls + 1
    /\ locals'.dones

\* C30: in AllCallbacks, on every step where dones[0] is true, the value
\* appended to _ep_dst_min_buffer is the minimum of infos[0]['dst'] over
\* exactly the steps of the episode that just ended, the value appended to
\* _ep_end_buffer is that episode's last infos[0]['dst'], _episode_num grows
\* by one and _dst_min is cleared.
C30_EpisodeDistances ==
    [][EpisodeDone =>
           LET dsts    == Append(episode_dsts, locals'.infos.dst)
               ep_min  == allCallbacks'._ep_dst_min_buffer.items
               ep_end  == allCallbacks'._ep_end_buffer.items
           IN  /\ ep_min[Len(ep_min)] = Smallest(dsts)
               /\ ep_end[Len(ep_end)] = locals'.infos.dst
               /\ allCallbacks'._episode_num = allCallbacks._episode_num + 1
               /\ IsNone(allCallbacks'._dst_min)]_vars

\* two episodes are done: the first came as close as 0.010 and ended at 0.030,
\* the second never came closer than 0.030
C30_Witness ==
    /\ allCallbacks._episode_num = 2
    /\ ~IsNone(allCallbacks._ep_dst_min_buffer)
    /\ allCallbacks._ep_dst_min_buffer.items = <<10, 30>>
    /\ allCallbacks._ep_end_buffer.items = <<30, 30>>
    /\ IsNone(allCallbacks._dst_min)

\* best_mean_reward as a comparable pair: -inf is below every number
BestRank(best) == IF "inf" \in DOMAIN best THEN <<0, 0>> ELSE <<1, best.value>>

NotBelow(b2, b1) ==
    \/ BestRank(b2)[1] > BestRank(b1)[1]
    \/ BestRank(b2)[1] = BestRank(b1)[1] /\ BestRank(b2)[2] >= BestRank(b1)[2]

\* the last n entries of a list
MostRecent(xs, n) == IF Len(xs) <= n THEN xs ELSE SubSeq(xs, Len(xs) - n + 1, Len(xs))

\* the transition is the return of AllCallbacks._on_step
OnStepReturns == last'.op = "AllCallbacks._on_step" /\ allCallbacks.position = "save"

ModelSaved == \E k \in DOMAIN calls' : calls'[k].fn = "model.save"

\* C31: in AllCallbacks, best_mean_reward never decreases; the model is saved
\* only on a call where n_calls is a multiple of check_freq, the episode-reward
\* buffer is non-empty and the mean of the buffered episode rewards is strictly
\* greater than both the previous best_mean_reward and 0; the episode-reward
\* buffer never holds more than stats_window_size entries and keeps the most
\* recent ones.
C31_BestModelSaved ==
    [][/\ NotBelow(allCallbacks'.best_mean_reward, allCallbacks.best_mean_reward)
       /\ ~IsNone(allCallbacks'._ep_info_buffer) =>
              Len(allCallbacks'._ep_info_buffer.items) <= stats_window_size
       /\ (OnStepReturns /\ "episode" \in DOMAIN locals.infos) =>
              allCallbacks'._ep_info_buffer.items =
                  MostRecent(Append(IF IsNone(allCallbacks._ep_info_buffer)
                                    THEN <<>>
                                    ELSE allCallbacks._ep_info_buffer.items,
                                    locals.infos.episode.r),
                             stats_window_size)
       /\ (OnStepReturns /\ ModelSaved) =>
              /\ allCallbacks'.n_calls % check_freq = 0
              /\ ~IsNone(allCallbacks'._ep_info_buffer)
              /\ Len(allCallbacks'._ep_info_buffer.items) > 0
              /\ LET mean_reward == Mean(allCallbacks'._ep_info_buffer.items)
                 IN  /\ mean_reward > 0
                     /\ \/ "inf" \in DOMAIN allCallbacks.best_mean_reward
                        \/ mean_reward > allCallbacks.best_mean_reward.value
                     /\ allCallbacks'.best_mean_reward = [value |-> mean_reward]
       /\ (~OnStepReturns \/ ~ModelSaved) =>
              allCallbacks'.best_mean_reward = allCallbacks.best_mean_reward]_vars

\* the fourth call saves a model of mean 4.0 after an older episode reward has
\* left the full buffer
C31_Witness ==
    /\ last.op = "AllCallbacks._on_step"
    /\ allCallbacks.n_calls = 4
    /\ \E k \in DOMAIN calls : calls[k].fn = "model.save"
    /\ allCallbacks.best_mean_reward = [value |-> 4000]
    /\ allCallbacks._ep_info_buffer.items = <<4000, 4000>>

====
